---- MODULE Spec2Model ----
(***************************************************************************)
(* A model of allennlp.state_machines.beam_search.BeamSearch: the          *)
(* constructor, constrained_to and the step loop, back-fill and final      *)
(* ranking of search.  State, TransitionFunction and construct_prefix_tree *)
(* are collaborators whose code is outside this source tree; they are      *)
(* modelled from their documented interface.                               *)
(***************************************************************************)
EXTENDS Integers, Sequences, FiniteSets, TLC

VARIABLES
    pc,                 \* "new" | "ready" | "loop" | "done": position of the caller / of search
    engine,             \* the BeamSearch instance that search is called on
    receiver,           \* the instance constrained_to was called on, if any
    ctor_args,          \* the arguments the instance that search is called on was built from
    num_steps,          \* argument of search
    initial_state,      \* argument of search: a grouped State
    transition_function,\* argument of search: the transition policy
    keep_final,         \* argument of search: keep_final_unfinished_states
    finished_states,    \* local of search: dict batch index -> list of states
    states,             \* local of search: list of active States
    step_num,           \* local of search
    calls,              \* take_step calls made by the running search, in order
    results             \* what each completed search returned and left behind

vars == <<pc, engine, receiver, ctor_args, num_steps, initial_state,
          transition_function, keep_final, finished_states, states, step_num,
          calls, results>>

-----------------------------------------------------------------------------
(* Bounds of the model *)

MaxBeam == 2
MaxSteps == 3
MaxSeq == 2

Actions == {0, 1}
ActionList == <<0, 1>>

-----------------------------------------------------------------------------
(* Python values *)

None == [some |-> FALSE]
Some(x) == [some |-> TRUE, val |-> x]

Min(a, b) == IF a <= b THEN a ELSE b
Max(a, b) == IF a >= b THEN a ELSE b

\* s[:k], with Python's meaning of a negative k
Take(s, k) ==
    IF k >= 0 THEN SubSeq(s, 1, Min(k, Len(s)))
    ELSE SubSeq(s, 1, Max(Len(s) + k, 0))

\* A dict (or defaultdict(list)) is the sequence of its entries in insertion order.
DictKeys(d) == {d[i].k : i \in DOMAIN d}
DictGet(d, key) == d[CHOOSE i \in DOMAIN d : d[i].k = key].v

\* defaultdict(list): d[key], which inserts an empty list for a missing key
DictTouch(d, key) ==
    IF key \in DictKeys(d) THEN d ELSE Append(d, [k |-> key, v |-> <<>>])

\* defaultdict(list): d[key].append(x)
DictAppend(d, key, x) ==
    LET t == DictTouch(d, key)
    IN  [i \in DOMAIN t |-> IF t[i].k = key
                            THEN [k |-> key, v |-> Append(t[i].v, x)]
                            ELSE t[i]]

-----------------------------------------------------------------------------
(* State: a group of hypotheses.  A group is a sequence of members, each    *)
(* with its batch index, score and action history.                         *)

Member(b, s, h) == [batch |-> b, score |-> s, hist |-> h]

RECURSIVE CombineStates(_)
CombineStates(list) ==
    IF list = <<>> THEN <<>> ELSE Head(list) \o CombineStates(Tail(list))

\* is_finished() of a singleton State under a policy: its last action is terminal,
\* or its history has reached the length at which every hypothesis is complete
IsFinished(p, m) ==
    /\ Len(m.hist) > 0
    /\ (m.hist[Len(m.hist)] \in p.fin \/ Len(m.hist) >= p.stop)

-----------------------------------------------------------------------------
(* TransitionFunction.take_step *)

RECURSIVE InsertDesc(_, _)
InsertDesc(sorted, x) ==
    IF sorted = <<>> THEN <<x>>
    ELSE IF Head(sorted).score >= x.score
         THEN <<Head(sorted)>> \o InsertDesc(Tail(sorted), x)
         ELSE <<x>> \o sorted

RECURSIVE SortDesc(_)
SortDesc(s) ==
    IF s = <<>> THEN <<>>
    ELSE InsertDesc(SortDesc(SubSeq(s, 1, Len(s) - 1)), s[Len(s)])

Child(p, m, a) == Member(m.batch, m.score + p.delta[a + 1], Append(m.hist, a))

\* the policy has a transition from hypothesis m by action a: m has not reached the
\* depth at which hypotheses run out of actions, and a is among the valid actions
Offers(p, m, a) == Len(m.hist) < p.depth /\ a \in p.offers

RECURSIVE ChildrenOf(_, _, _, _)
ChildrenOf(p, m, allowed, i) ==
    IF i > Len(ActionList) THEN <<>>
    ELSE LET a == ActionList[i]
             ok == Offers(p, m, a) /\ ((~allowed.some) \/ a \in allowed.val[1])
         IN  (IF ok THEN <<Child(p, m, a)>> ELSE <<>>)
             \o ChildrenOf(p, m, allowed, i + 1)

MemberCandidates(p, m, max_actions, allowed) ==
    Take(SortDesc(ChildrenOf(p, m, allowed, 1)), max_actions)

RECURSIVE GroupCandidates(_, _, _, _)
GroupCandidates(p, group, max_actions, allowed) ==
    IF group = <<>> THEN <<>>
    ELSE MemberCandidates(p, Head(group), max_actions, allowed)
         \o GroupCandidates(p, Tail(group), max_actions, allowed)

TakeStep(p, group, max_actions, allowed) ==
    SortDesc(GroupCandidates(p, group, max_actions, allowed))

-----------------------------------------------------------------------------
(* util.construct_prefix_tree, for one batch element holding one sequence *)

ConstructPrefixTree(seq) ==
    [h \in {SubSeq(seq, 1, j - 1) : j \in 1..Len(seq)} |-> {seq[Len(h) + 1]}]

-----------------------------------------------------------------------------
(* BeamSearch.__init__ *)

\* line 45
EffectivePerNode(beam_size, per_node) ==
    IF per_node.some /\ per_node.val # 0 THEN per_node.val ELSE beam_size

BeamSearchInit(beam_size, per_node, initial_sequence, keep_beam_details) ==
    [ beam_size |-> beam_size,
      per_node_beam_size |-> EffectivePerNode(beam_size, per_node),
      allowed_transitions |->
          IF initial_sequence.some
          THEN Some(ConstructPrefixTree(initial_sequence.val))
          ELSE None,
      beams |-> IF keep_beam_details THEN Some(<<>>) ELSE None ]

ConstrainedEngineDefaultPerNode(e, initial_sequence, keep_beam_details) ==
    BeamSearchInit(e.beam_size, None, initial_sequence, keep_beam_details)

\* BeamSearch.constrained_to: the instance it returns
ConstrainedEngine(e, initial_sequence, keep_beam_details) ==
    BeamSearchInit(e.beam_size, Some(e.per_node_beam_size), initial_sequence,
                   keep_beam_details)

\* BeamSearch.constrained_to: the instance it is called on, after the call
\* (nothing is assigned to self, and the new instance gets lists of its own)
ReceiverAfterConstrainedTo(e, initial_sequence, keep_beam_details) == e

CtorArgs(beam_size, per_node, initial_sequence, keep_beam_details) ==
    [ beam_size |-> beam_size, per_node_beam_size |-> per_node,
      initial_sequence |-> initial_sequence, keep_beam_details |-> keep_beam_details ]

-----------------------------------------------------------------------------
(* BeamSearch.search: one iteration of the loop *)

LoopConditionNoBudget(sts, step, nsteps) == sts # <<>>

ClearedBeamsStale(e) == e.beams

\* line 101
LoopCondition(sts, step, nsteps) == sts # <<>> /\ step <= nsteps

\* lines 98-99
ClearedBeams(e) == IF e.beams.some THEN Some(<<>>) ELSE e.beams

AllowedActionsNever(e, grouped_state) == None

AllowedActionsTruthyKey(e, grouped_state) ==
    IF e.allowed_transitions.some /\ DOMAIN e.allowed_transitions.val # {}
    THEN LET key == grouped_state[1].hist
         IN  IF key # <<>> /\ key \in DOMAIN e.allowed_transitions.val
             THEN Some(<<e.allowed_transitions.val[key]>>)
             ELSE None
    ELSE None

\* lines 108-113
AllowedActions(e, grouped_state) ==
    IF e.allowed_transitions.some /\ DOMAIN e.allowed_transitions.val # {}
    THEN LET key == grouped_state[1].hist
         IN  IF key \in DOMAIN e.allowed_transitions.val
             THEN Some(<<e.allowed_transitions.val[key]>>)
             ELSE None
    ELSE None

MaxActionsBeamSize(e) == e.beam_size

\* line 116
MaxActions(e) == e.per_node_beam_size

KeepsUnfinishedAnyStep(step, nsteps, keep) == keep

KeepsUnfinishedNever(step, nsteps, keep) == FALSE

\* lines 122-126: what the candidates of a step add to finished_states
KeepsUnfinished(step, nsteps, keep) == step = nsteps /\ keep

RECURSIVE CollectFinished(_, _, _, _)
CollectFinished(fin, cands, p, retain) ==
    IF cands = <<>> THEN fin
    ELSE LET c == Head(cands)
         IN  CollectFinished(
                 IF IsFinished(p, c) \/ retain
                 THEN DictAppend(fin, c.batch, c) ELSE fin,
                 Tail(cands), p, retain)

\* lines 124-127: the unfinished candidates, by batch index
RECURSIVE CollectNext(_, _, _)
CollectNext(nxt, cands, p) ==
    IF cands = <<>> THEN nxt
    ELSE LET c == Head(cands)
         IN  CollectNext(
                 IF IsFinished(p, c) THEN nxt ELSE DictAppend(nxt, c.batch, c),
                 Tail(cands), p)

SurvivorsUntruncated(e, batch_states) == batch_states

\* line 132
Survivors(e, batch_states) == Take(batch_states, e.beam_size)

\* lines 128-132: the new active list
RECURSIVE NewStates(_, _)
NewStates(e, nxt) ==
    IF nxt = <<>> THEN <<>>
    ELSE [i \in 1..Len(Survivors(e, Head(nxt).v)) |-> <<Survivors(e, Head(nxt).v)[i]>>]
         \o NewStates(e, Tail(nxt))

BeamEntry(batch_states) ==
    [i \in DOMAIN batch_states |-> <<batch_states[i].score, batch_states[i].hist>>]

RECURSIVE AllValues(_)
AllValues(d) == IF d = <<>> THEN <<>> ELSE Head(d).v \o AllValues(Tail(d))

LoggedBeamsLumped(log, nxt) == Append(log, BeamEntry(AllValues(nxt)))

\* lines 134-137: one log entry per batch index of next_states
RECURSIVE LoggedBeams(_, _)
LoggedBeams(log, nxt) ==
    IF nxt = <<>> THEN log
    ELSE LoggedBeams(Append(log, BeamEntry(Head(nxt).v)), Tail(nxt))

-----------------------------------------------------------------------------
(* BeamSearch.search: after the loop *)

RECURSIVE PadTo(_, _)
PadTo(log, n) == IF Len(log) < n THEN PadTo(Append(log, <<>>), n) ELSE log

BackFillOneByLength(log, st) ==
    LET padded == PadTo(log, Len(st.hist) + 1)
    IN  [padded EXCEPT ![Len(st.hist) + 1] = Append(@, <<st.score, st.hist>>)]

\* lines 143-149; log[len - 1] with Python's meaning of index -1
BackFillOne(log, st) ==
    LET padded == PadTo(log, Len(st.hist))
        idx == IF Len(st.hist) >= 1 THEN Len(st.hist) ELSE Len(padded)
    IN  [padded EXCEPT ![idx] = Append(@, <<st.score, st.hist>>)]

RECURSIVE BackFill(_, _)
BackFill(log, sts) ==
    IF sts = <<>> THEN log ELSE BackFill(BackFillOne(log, Head(sts)), Tail(sts))

\* line 142: finished_states[0] on the defaultdict
FinishedAfterBackFill(e, fin) == IF e.beams.some THEN DictTouch(fin, 0) ELSE fin

RECURSIVE RankInsertBeforeTies(_, _)
RankInsertBeforeTies(sorted, x) ==
    IF sorted = <<>> THEN <<x>>
    ELSE IF (0 - Head(sorted).score) < (0 - x.score)
         THEN <<Head(sorted)>> \o RankInsertBeforeTies(Tail(sorted), x)
         ELSE <<x>> \o sorted

\* lines 155-156: a stable ascending sort on the key -score
RECURSIVE RankInsert(_, _)
RankInsert(sorted, x) ==
    IF sorted = <<>> THEN <<x>>
    ELSE IF (0 - Head(sorted).score) <= (0 - x.score)
         THEN <<Head(sorted)>> \o RankInsert(Tail(sorted), x)
         ELSE <<x>> \o sorted

RankedUnsorted(s) == s

RECURSIVE Ranked(_)
Ranked(s) ==
    IF s = <<>> THEN <<>>
    ELSE RankInsert(Ranked(SubSeq(s, 1, Len(s) - 1)), s[Len(s)])

BestOfUntruncated(e, batch_states) == Ranked(batch_states)

\* line 157
BestOf(e, batch_states) == Take(Ranked(batch_states), e.beam_size)

\* lines 151-158
BestStates(e, fin) == [i \in DOMAIN fin |-> [k |-> fin[i].k, v |-> BestOf(e, fin[i].v)]]

-----------------------------------------------------------------------------
(* Inputs *)

BeamSizes == 0..MaxBeam
PerNodeArgs == {None} \cup {Some(n) : n \in 0..MaxBeam}

RECURSIVE SeqsOfLen(_)
SeqsOfLen(n) ==
    IF n = 0 THEN {<<>>}
    ELSE {Append(s, a) : s \in SeqsOfLen(n - 1), a \in Actions}

InitialSequences == UNION {SeqsOfLen(n) : n \in 1..MaxSeq}

\* The score of a hypothesis that starts with a history is that history's cost.
InitialStates ==
    { <<Member(0, 0, <<>>)>>,
      <<Member(0, -1, <<1>>)>>,
      <<Member(0, 0, <<>>), Member(1, 0, <<>>)>>,
      <<Member(0, -1, <<1>>), Member(1, 0, <<>>)>> }

NoDeadEnd == MaxSteps + 2
Policies ==
    [ delta : {<<-1, -1>>, <<-1, -2>>, <<-1, 1>>},
      fin   : {{}, {0}},
      stop  : {2, NoDeadEnd},
      depth : {1, 2, NoDeadEnd},
      offers : {Actions} ]
    \cup
    \* a policy whose hypotheses never have action 0 among their valid actions
    [ delta : {<<-1, -1>>},
      fin   : {{}},
      stop  : {NoDeadEnd},
      depth : {NoDeadEnd},
      offers : {{1}} ]

NumSteps == -1..MaxSteps

-----------------------------------------------------------------------------
(* The state machine *)

Init ==
    /\ pc = "new"
    /\ engine = None
    /\ receiver = None
    /\ ctor_args = None
    /\ num_steps = 0
    /\ initial_state = <<>>
    /\ transition_function = None
    /\ keep_final = TRUE
    /\ finished_states = <<>>
    /\ states = <<>>
    /\ step_num = 1
    /\ calls = <<>>
    /\ results = <<>>

\* BeamSearch(beam_size, per_node_beam_size, keep_beam_details=...)
Construct ==
    /\ pc = "new"
    /\ \E b \in BeamSizes, pn \in PerNodeArgs, kbd \in BOOLEAN :
          /\ engine' = Some(BeamSearchInit(b, pn, None, kbd))
          /\ ctor_args' = Some(CtorArgs(b, pn, None, kbd))
    /\ pc' = "ready"
    /\ UNCHANGED <<receiver, num_steps, initial_state, transition_function,
                   keep_final, finished_states, states, step_num, calls, results>>

\* engine.constrained_to(initial_sequence, keep_beam_details)
ConstrainedTo ==
    /\ pc = "ready"
    /\ ~receiver.some
    /\ \E seq \in InitialSequences, kbd \in BOOLEAN :
          /\ engine' = Some(ConstrainedEngine(engine.val, Some(seq), kbd))
          /\ ctor_args' = Some(CtorArgs(engine.val.beam_size,
                                        Some(engine.val.per_node_beam_size),
                                        Some(seq), kbd))
          /\ receiver' = Some(ReceiverAfterConstrainedTo(engine.val, Some(seq), kbd))
    /\ UNCHANGED <<pc, num_steps, initial_state, transition_function,
                   keep_final, finished_states, states, step_num, calls, results>>

\* lines 93-99, on the instance e
EnterOn(e, n, s0, p, keep) ==
    /\ num_steps' = n
    /\ initial_state' = s0
    /\ transition_function' = Some(p)
    /\ keep_final' = keep
    /\ finished_states' = <<>>
    /\ states' = <<s0>>
    /\ step_num' = 1
    /\ engine' = Some([e EXCEPT !.beams = ClearedBeams(e)])
    /\ calls' = <<>>
    /\ pc' = "loop"
    /\ UNCHANGED <<receiver, results>>

Enter(n, s0, p, keep) ==
    /\ EnterOn(engine.val, n, s0, p, keep)
    /\ UNCHANGED ctor_args

\* engine.search(num_steps, initial_state, transition_function, keep)
Search ==
    /\ pc = "ready"
    /\ \E n \in NumSteps, s0 \in InitialStates, p \in Policies, keep \in BOOLEAN :
          Enter(n, s0, p, keep)

\* the same engine, searched again with the same arguments (the flag may differ)
SearchAgain ==
    /\ pc = "done"
    /\ Len(results) = 1
    /\ \E keep \in BOOLEAN :
          Enter(num_steps, initial_state, transition_function.val, keep)

\* an instance built from the same arguments except keep_beam_details, which is
\* flipped, is searched with the arguments of the first search
SearchTwin ==
    /\ pc = "done"
    /\ Len(results) = 1
    /\ LET a == ctor_args.val
           twin == BeamSearchInit(a.beam_size, a.per_node_beam_size,
                                  a.initial_sequence, ~a.keep_beam_details)
       IN  /\ EnterOn(twin, num_steps, initial_state, transition_function.val, keep_final)
           /\ ctor_args' = Some([a EXCEPT !.keep_beam_details = ~a.keep_beam_details])

\* lines 101-138
Step ==
    /\ pc = "loop"
    /\ LoopCondition(states, step_num, num_steps)
    /\ LET e == engine.val
           p == transition_function.val
           grouped_state == CombineStates(states)
           allowed_actions == AllowedActions(e, grouped_state)
           cands == TakeStep(p, grouped_state, MaxActions(e), allowed_actions)
           retain == KeepsUnfinished(step_num, num_steps, keep_final)
           next_states == CollectNext(<<>>, cands, p)
       IN  /\ finished_states' = CollectFinished(finished_states, cands, p, retain)
           /\ states' = NewStates(e, next_states)
           /\ engine' = IF e.beams.some
                        THEN Some([e EXCEPT !.beams = Some(LoggedBeams(e.beams.val, next_states))])
                        ELSE engine
           /\ calls' = Append(calls, [step |-> step_num,
                                      active |-> states,
                                      group |-> grouped_state,
                                      max_actions |-> MaxActions(e),
                                      allowed |-> allowed_actions,
                                      cands |-> cands])
    /\ step_num' = step_num + 1
    /\ UNCHANGED <<pc, receiver, ctor_args, num_steps, initial_state,
                   transition_function, keep_final, results>>

\* lines 140-158
Return ==
    /\ pc = "loop"
    /\ ~LoopCondition(states, step_num, num_steps)
    /\ LET e == engine.val
           fin == FinishedAfterBackFill(e, finished_states)
           log == IF e.beams.some
                  THEN Some(BackFill(e.beams.val, DictGet(fin, 0)))
                  ELSE None
       IN  /\ finished_states' = fin
           /\ engine' = Some([e EXCEPT !.beams = log])
           /\ results' = Append(results, [ best_states |-> BestStates(e, fin),
                                           finished |-> fin,
                                           beams |-> log,
                                           calls |-> calls,
                                           keep |-> keep_final ])
    /\ pc' = "done"
    /\ UNCHANGED <<receiver, ctor_args, num_steps, initial_state,
                   transition_function, keep_final, states, step_num, calls>>

Next == Construct \/ Search \/ SearchAgain \/ Step \/ Return

Spec == Init /\ [][Next]_vars

NextConstrained == Construct \/ ConstrainedTo \/ Search \/ Step \/ Return

SpecConstrained == Init /\ [][NextConstrained]_vars

NextTwin == Construct \/ Search \/ SearchTwin \/ Step \/ Return

SpecTwin == Init /\ [][NextTwin]_vars

-----------------------------------------------------------------------------
(* Vocabulary of the properties *)

Range(s) == {s[i] : i \in DOMAIN s}
IndexOf(s, x) == CHOOSE i \in DOMAIN s : s[i] = x
Returned == {results[i] : i \in DOMAIN results}
BatchesOf(group) == {group[i].batch : i \in DOMAIN group}
IsSortedDesc(s) == \A i, j \in DOMAIN s : i < j => s[i].score >= s[j].score

\* the accumulated list a returned list was ranked from
Discovered(r, key) == DictGet(r.finished, key)

-----------------------------------------------------------------------------
(* C1: with beam_size k >= 1, every list of every returned mapping has at  *)
(* most k states, for every batch index and whatever num_steps,            *)
(* per_node_beam_size and keep_final_unfinished_states are.                *)
C1_LengthAtMostBeam ==
    \A r \in Returned :
        engine.val.beam_size >= 1 =>
            \A i \in DOMAIN r.best_states :
                Len(r.best_states[i].v) <= engine.val.beam_size

\* a search that found more states for a batch index than the beam holds
C1_Witness ==
    \E r \in Returned : \E i \in DOMAIN r.best_states :
        /\ engine.val.beam_size >= 1
        /\ Len(r.finished[i].v) > engine.val.beam_size
        /\ Len(r.best_states[i].v) = engine.val.beam_size

(* C2: every returned list is sorted by non-increasing score, and it is    *)
(* the top beam_size of the states discovered for its batch index: it      *)
(* holds min(beam_size, n) of the n discovered states and no discovered    *)
(* state left out scores strictly higher than a returned one.              *)
C2_SortedTop ==
    \A r \in Returned : \A i \in DOMAIN r.best_states :
        LET best == r.best_states[i].v
            all  == Discovered(r, r.best_states[i].k)
        IN  /\ IsSortedDesc(best)
            /\ Range(best) \subseteq Range(all)
            /\ Len(best) = Min(Max(engine.val.beam_size, 0), Len(all))
            /\ \A x \in Range(all) \ Range(best) : \A y \in Range(best) :
                   x.score <= y.score

\* a returned list whose accumulator was out of order and lost a state to truncation
C2_Witness ==
    \E r \in Returned : \E i \in DOMAIN r.best_states :
        LET best == r.best_states[i].v
            all  == Discovered(r, r.best_states[i].k)
        IN  /\ ~IsSortedDesc(all)
            /\ Len(best) >= 2
            /\ Len(all) > Len(best)
            /\ best[1].score > best[Len(best)].score

(* C3: in the final ranking two states of one batch index with equal score *)
(* keep their discovery order, and when truncation cuts through a group of *)
(* tied states the earlier-discovered ones are kept.                       *)
C3_TiesKeepDiscoveryOrder ==
    \A r \in Returned : \A i \in DOMAIN r.best_states :
        LET best == r.best_states[i].v
            all  == Discovered(r, r.best_states[i].k)
        IN  /\ \A a, b \in DOMAIN best :
                   (a < b /\ best[a].score = best[b].score)
                       => IndexOf(all, best[a]) < IndexOf(all, best[b])
            /\ \A x \in Range(all) \ Range(best) : \A y \in Range(best) :
                   x.score = y.score => IndexOf(all, y) < IndexOf(all, x)

\* two tied states returned in order, and a third state of the same score cut off
C3_Witness ==
    \E r \in Returned : \E i \in DOMAIN r.best_states :
        LET best == r.best_states[i].v
            all  == Discovered(r, r.best_states[i].k)
        IN  /\ Len(best) >= 2
            /\ best[1].score = best[2].score
            /\ \E x \in Range(all) \ Range(best) : x.score = best[Len(best)].score

\* no unfinished candidate was produced at step num_steps of the search
NoUnfinishedAtLastStep(r) ==
    \A c \in Range(r.calls) :
        c.step = num_steps =>
            \A x \in Range(c.cands) : IsFinished(transition_function.val, x)

(* C4: when no unfinished candidate is produced at step num_steps, the     *)
(* search with keep_final_unfinished_states = true and the search with it  *)
(* false, on the same engine, initial state and policy, return the same    *)
(* mapping: same keys, same states in the same order.                      *)
C4_FlagIrrelevantWhenAllFinish ==
    (Len(results) = 2 /\ results[1].keep # results[2].keep
        /\ NoUnfinishedAtLastStep(results[1]) /\ NoUnfinishedAtLastStep(results[2]))
    => results[1].best_states = results[2].best_states

\* both flags were tried on a search whose last permitted step produced finished states only
C4_Witness ==
    /\ Len(results) = 2
    /\ results[1].keep # results[2].keep
    /\ NoUnfinishedAtLastStep(results[1])
    /\ \E c \in Range(results[1].calls) : c.step = num_steps /\ c.cands # <<>>
    /\ \E c \in Range(results[1].calls) :
          \E x \in Range(c.cands) : ~IsFinished(transition_function.val, x)
    /\ results[1].best_states # <<>>

\* the take_step calls of the running search are numbered 1, 2, ... and within budget
CallsWithinBudget ==
    /\ Len(calls) = step_num - 1
    /\ Len(calls) <= Max(num_steps, 0)
    /\ \A i \in DOMAIN calls : calls[i].step = i /\ calls[i].active # <<>>

(* C5: search always terminates: it calls take_step at most num_steps      *)
(* times, the step counter grows by exactly one per call, the loop stops   *)
(* as soon as a step leaves the active list empty, and no take_step call   *)
(* is made with an empty active list.  Termination is stated by its        *)
(* variant: a running search can always move, every move that stays in     *)
(* the loop is one take_step call that uses up one unit of the budget      *)
(* num_steps + 1 - step_num, which never goes below zero.                  *)
C5_Terminates ==
    [][ /\ (pc' \in {"loop", "done"} => CallsWithinBudget')
        /\ (pc = "loop" /\ pc' = "loop")
               => /\ LoopCondition(states, step_num, num_steps)
                  /\ step_num' = step_num + 1
                  /\ Len(calls') = Len(calls) + 1
                  /\ step_num' <= num_steps + 1
        /\ (pc = "loop" /\ ~LoopCondition(states, step_num, num_steps))
               => (pc' = "done" /\ calls' = calls)
        /\ (pc = "loop" /\ states = <<>>) => (pc' = "done" /\ calls' = calls) ]_vars

\* a search that stopped before its budget because nothing was left on the beam
C5_Witness ==
    /\ pc = "done"
    /\ states = <<>>
    /\ Len(calls) >= 2
    /\ Len(calls) < num_steps

-----------------------------------------------------------------------------
Front(h) == SubSeq(h, 1, Len(h) - 1)

\* the candidates of a take_step call that continue one member of its group
ChildrenIn(c, parent) ==
    {x \in Range(c.cands) : x.batch = parent.batch /\ Front(x.hist) = parent.hist}

\* the engine was built by constrained_to and is searched from one hypothesis
\* with an empty history
ForcedDecoding ==
    /\ pc \in {"loop", "done"}
    /\ receiver.some
    /\ Len(initial_state) = 1
    /\ initial_state[1].hist = <<>>

ConstraintSeq == ctor_args.val.initial_sequence.val

\* a take_step call at step t <= len(seq) is restricted to seq[t] and is made on the
\* one hypothesis that followed seq so far
ForcedCall(c) ==
    /\ c.allowed = Some(<<{ConstraintSeq[c.step]}>>)
    /\ Len(c.group) = 1
    /\ c.group[1].hist = SubSeq(ConstraintSeq, 1, c.step - 1)

(* C6, as stated: on an engine built with constrained_to(seq), searched    *)
(* from one hypothesis with an empty history, at every step t <= len(seq)  *)
(* the policy is called with the single allowed action seq[t] and the      *)
(* candidates are exactly the one hypothesis whose history is the first t  *)
(* actions of seq; at every step t > len(seq) the call is unrestricted.    *)
(* Stated for engines with beam_size >= 1 only.                            *)
C6_Original ==
    (ForcedDecoding /\ engine.val.beam_size >= 1) =>
        \A c \in Range(calls) :
            IF c.step <= Len(ConstraintSeq)
            THEN /\ ForcedCall(c)
                 /\ Len(c.cands) = 1
                 /\ c.cands[1].hist = SubSeq(ConstraintSeq, 1, c.step)
            ELSE c.allowed = None

(* C6, amended: at every step t <= len(seq) that the search makes, the     *)
(* policy is called with the single allowed action seq[t] on the one       *)
(* hypothesis whose history is the first t-1 actions of seq, and the       *)
(* candidates are at most the one hypothesis whose history is the first t  *)
(* actions of seq: exactly that one when the policy has the transition     *)
(* seq[t] for that hypothesis and max_actions >= 1, none otherwise (the    *)
(* hypothesis has run out of actions, or has actions but not seq[t]); at   *)
(* every step t > len(seq) the call is unrestricted.                       *)
C6_ForcedThenFree ==
    ForcedDecoding =>
        \A c \in Range(calls) :
            IF c.step <= Len(ConstraintSeq)
            THEN /\ ForcedCall(c)
                 /\ Len(c.cands) <= 1
                 /\ \A x \in Range(c.cands) :
                        x.hist = SubSeq(ConstraintSeq, 1, c.step)
                 /\ Len(c.cands) = 1 <=>
                        /\ Offers(transition_function.val, c.group[1],
                                  ConstraintSeq[c.step])
                        /\ c.max_actions >= 1
            ELSE c.allowed = None

\* a search forced along a two-action sequence that then went on unrestricted
C6_Witness ==
    /\ ForcedDecoding
    /\ pc = "done"
    /\ Len(ConstraintSeq) = 2
    /\ Len(calls) = 3
    /\ calls[1].allowed.some /\ calls[2].allowed.some
    /\ Len(calls[2].cands) = 1
    /\ calls[3].allowed = None
    /\ Len(calls[3].cands) = 2

InvalidConfiguration ==
    /\ ctor_args.some
    /\ \/ ctor_args.val.beam_size <= 0
       \/ (ctor_args.val.per_node_beam_size.some
              /\ ctor_args.val.per_node_beam_size.val <= 0)
       \/ num_steps <= 0

AllListsEmpty(d) == \A i \in DOMAIN d : d[i].v = <<>>

(* C7, as stated: an engine built with beam_size <= 0 or                   *)
(* per_node_beam_size <= 0, or a search called with num_steps <= 0, ends   *)
(* in an error and returns no result mapping.                              *)
C7_Original == InvalidConfiguration => results = <<>>

\* what the code does with such a configuration instead: with num_steps <= 0 search
\* makes no take_step call and returns a mapping that holds no state; with
\* beam_size = 0 every returned list is empty; per_node_beam_size = 0 is treated as
\* not given, so that beam_size is passed as max_actions
SilentlyAccepted ==
    \A r \in Returned :
        /\ num_steps <= 0 => (r.calls = <<>> /\ AllListsEmpty(r.best_states))
        /\ engine.val.beam_size = 0 => AllListsEmpty(r.best_states)
        /\ ctor_args.val.per_node_beam_size \in {None, Some(0)} =>
               \A c \in Range(r.calls) : c.max_actions = ctor_args.val.beam_size

(* C8: two searches on the same engine with the same num_steps, initial    *)
(* state, flag and policy return the same mapping (keys, states, order)    *)
(* and leave the same trajectory log: nothing of the first call carries    *)
(* over into the second.                                                   *)
C8_SearchTwiceSame ==
    (Len(results) = 2 /\ results[1].keep = results[2].keep) =>
        /\ results[1].best_states = results[2].best_states
        /\ results[1].beams = results[2].beams
        /\ results[1].calls = results[2].calls
        /\ results[1].finished = results[2].finished

\* a second search with the same flag on an engine that keeps a non-empty log
C8_Witness ==
    /\ Len(results) = 2
    /\ results[1].keep = results[2].keep
    /\ results[2].beams.some
    /\ Len(results[2].beams.val) >= 2
    /\ ~AllListsEmpty(results[2].best_states)

(* C9: every take_step call passes max_actions equal to the engine's       *)
(* per_node_beam_size (beam_size when none was given), so that at most     *)
(* per_node_beam_size children of any one parent are among the candidates  *)
(* of a step.                                                              *)
C9_MaxActionsIsPerNode ==
    \A c \in Range(calls) :
        /\ c.max_actions = engine.val.per_node_beam_size
        /\ (ctor_args.val.per_node_beam_size.some /\ ctor_args.val.per_node_beam_size.val >= 1)
               => c.max_actions = ctor_args.val.per_node_beam_size.val
        /\ ~ctor_args.val.per_node_beam_size.some => c.max_actions = engine.val.beam_size
        /\ \A i \in DOMAIN c.group :
               Cardinality(ChildrenIn(c, c.group[i])) <= c.max_actions

\* a call with per_node_beam_size 1 below beam_size 2 on a hypothesis with two actions
C9_Witness ==
    \E c \in Range(calls) :
        /\ c.max_actions = 1
        /\ engine.val.beam_size = 2
        /\ Len(c.group) = 2
        /\ \A i \in DOMAIN c.group :
               /\ Len(c.group[i].hist) < transition_function.val.depth
               /\ Cardinality(ChildrenIn(c, c.group[i])) = 1

HoldsAllBatches(r) ==
    \A b \in BatchesOf(initial_state) :
        b \in DictKeys(r.best_states) /\ DictGet(r.best_states, b) # <<>>

(* C10, as stated: with keep_final_unfinished_states set the returned      *)
(* mapping holds a non-empty list for every batch index of the initial     *)
(* state.  Stated for beam_size >= 1 and num_steps >= 1 only.              *)
C10_Original ==
    \A r \in Returned :
        (r.keep /\ engine.val.beam_size >= 1 /\ num_steps >= 1) => HoldsAllBatches(r)

\* every hypothesis given to take_step in the search got at least one candidate
NoDeadEndMet(r) ==
    \A c \in Range(r.calls) : \A i \in DOMAIN c.group : ChildrenIn(c, c.group[i]) # {}

(* C10, amended: with keep_final_unfinished_states set, beam_size >= 1 and *)
(* num_steps >= 1, and when no hypothesis runs out of actions (take_step   *)
(* returns at least one candidate for every hypothesis it is given), the   *)
(* returned mapping holds a non-empty list for every batch index of the    *)
(* initial state, even if nothing ever finishes.                           *)
C10_ResultWhenKept ==
    \A r \in Returned :
        (r.keep /\ engine.val.beam_size >= 1 /\ num_steps >= 1 /\ NoDeadEndMet(r))
            => HoldsAllBatches(r)

\* a search over two batch indices in which nothing finished and the flag was set
C10_Witness ==
    \E r \in Returned :
        /\ r.keep
        /\ engine.val.beam_size >= 1
        /\ Len(r.calls) = num_steps
        /\ num_steps >= 2
        /\ NoDeadEndMet(r)
        /\ Cardinality(BatchesOf(initial_state)) = 2
        /\ \A c \in Range(r.calls) : \A x \in Range(c.cands) :
               ~IsFinished(transition_function.val, x)
        /\ HoldsAllBatches(r)

-----------------------------------------------------------------------------
\* the binary-tree scenario: one hypothesis with score 0, every hypothesis has the
\* two children 0 and 1, each one unit below its parent, nothing finishes before
\* depth 3, beam_size = per_node_beam_size = 2, num_steps = 3, the flag set
BinaryTreeScenario(r) ==
    /\ initial_state = <<Member(0, 0, <<>>)>>
    /\ engine.val.beam_size = 2
    /\ engine.val.per_node_beam_size = 2
    /\ num_steps = 3
    /\ r.keep
    /\ transition_function.val.delta = <<-1, -1>>
    /\ Len(r.calls) = 3
    /\ \A c \in Range(r.calls) :
          /\ \A i \in DOMAIN c.group : Cardinality(ChildrenIn(c, c.group[i])) = 2
          /\ c.step < 3 => \A x \in Range(c.cands) : ~IsFinished(transition_function.val, x)

(* C11: in the binary-tree scenario search returns exactly 2 states for    *)
(* the batch index, both with a history of length 3 and a score three      *)
(* units below the initial score, and they are the first two candidates of *)
(* step 3 in the policy's output order.                                    *)
C11_BinaryTree ==
    \A r \in Returned :
        BinaryTreeScenario(r) =>
            /\ DictKeys(r.best_states) = {0}
            /\ DictGet(r.best_states, 0) = SubSeq(r.calls[3].cands, 1, 2)
            /\ \A x \in Range(DictGet(r.best_states, 0)) :
                  Len(x.hist) = 3 /\ x.score = -3

\* the scenario was run and returned 000 and 001 out of the four candidates of step 3
C11_Witness ==
    \E r \in Returned :
        /\ BinaryTreeScenario(r)
        /\ Len(r.calls[3].cands) = 4
        /\ DictGet(r.best_states, 0)[1].hist = <<0, 0, 0>>
        /\ DictGet(r.best_states, 0)[2].hist = <<0, 0, 1>>

-----------------------------------------------------------------------------
SameWidths(e1, e2) ==
    /\ e1.beam_size = e2.beam_size
    /\ e1.per_node_beam_size = e2.per_node_beam_size

(* C12: constrained_to returns a new engine with the receiver's beam_size  *)
(* and effective per_node_beam_size and leaves the receiver as it was: its *)
(* constraint map and trajectory log (or their absence) are the same after *)
(* the call, and no later step of a search on the new engine changes them. *)
C12_ConstrainedToFrame ==
    [][ /\ (~receiver.some /\ receiver'.some)
            => /\ receiver' = engine
               /\ engine' # engine
               /\ engine'.val.allowed_transitions.some
               /\ SameWidths(engine'.val, engine.val)
        /\ receiver.some
            => /\ receiver' = receiver
               /\ SameWidths(engine'.val, receiver.val) ]_vars

\* a search has filled the new engine's log while the receiver, whose
\* per_node_beam_size differs from its beam_size, still has its empty log
C12_Witness ==
    /\ pc = "done"
    /\ receiver.some
    /\ receiver.val.beams = Some(<<>>)
    /\ receiver.val.allowed_transitions = None
    /\ receiver.val.per_node_beam_size # receiver.val.beam_size
    /\ engine.val.beams.some
    /\ engine.val.beams.val # <<>>

-----------------------------------------------------------------------------
\* the members of a sequence of states that belong to batch index b, in order
RECURSIVE OfBatch(_, _)
OfBatch(s, b) ==
    IF s = <<>> THEN <<>>
    ELSE (IF Head(s).batch = b THEN <<Head(s)>> ELSE <<>>) \o OfBatch(Tail(s), b)

\* the unfinished members of a sequence of states, in order
RECURSIVE Unfinished(_)
Unfinished(s) ==
    IF s = <<>> THEN <<>>
    ELSE (IF IsFinished(transition_function.val, Head(s)) THEN <<>> ELSE <<Head(s)>>)
         \o Unfinished(Tail(s))

LastCall == calls[Len(calls)]

(* C13: after every step the new active list holds, for each batch index,  *)
(* exactly the first min(beam_size, n) of that batch's n unfinished        *)
(* candidates in the order the policy returned them; no finished state is  *)
(* in the active list, so a finished state is never expanded again.        *)
C13_ActiveListIsBeam ==
    (pc \in {"loop", "done"} /\ calls # <<>>) =>
        LET active == CombineStates(states)
        IN  /\ \A i \in DOMAIN states : Len(states[i]) = 1
            /\ \A b \in BatchesOf(LastCall.cands) \cup BatchesOf(active) :
                  LET mine == OfBatch(Unfinished(LastCall.cands), b)
                  IN  OfBatch(active, b)
                          = SubSeq(mine, 1, Min(engine.val.beam_size, Len(mine)))
            /\ \A x \in Range(active) : ~IsFinished(transition_function.val, x)
            /\ \A c \in Range(calls) : \A i \in DOMAIN c.group :
                  c.step > 1 => ~IsFinished(transition_function.val, c.group[i])

\* a step over two batch indices, each with more unfinished candidates than the beam
\* holds
C13_Witness ==
    /\ pc = "loop"
    /\ calls # <<>>
    /\ engine.val.beam_size = 2
    /\ \A b \in {0, 1} :
          /\ Len(OfBatch(Unfinished(LastCall.cands), b)) > 2
          /\ Len(OfBatch(CombineStates(states), b)) = 2

-----------------------------------------------------------------------------
\* the candidates take_step returned at step n of the search recorded in r
CandidatesOfStep(r, n) ==
    UNION {Range(r.calls[i].cands) : i \in {j \in DOMAIN r.calls : r.calls[j].step = n}}

\* every state of every list of the mapping returned by the search recorded in r
ReturnedStates(r) ==
    UNION {Range(r.best_states[i].v) : i \in DOMAIN r.best_states}

(* C14: every returned state is either finished, or an unfinished          *)
(* candidate of step num_steps of a search run with                        *)
(* keep_final_unfinished_states true; no unfinished candidate of an        *)
(* earlier step is returned.                                               *)
C14_ReturnedFinishedOrFinal ==
    (pc = "done" /\ results # <<>>) =>
        LET r == results[Len(results)]
        IN  \A x \in ReturnedStates(r) :
                \/ IsFinished(transition_function.val, x)
                \/ /\ r.keep
                   /\ num_steps >= 1
                   /\ x \in CandidatesOfStep(r, num_steps)

\* a search of several steps that returns a finished state next to a retained
\* unfinished one, after an earlier step that had unfinished candidates too
C14_Witness ==
    /\ pc = "done"
    /\ results # <<>>
    /\ num_steps >= 2
    /\ LET r == results[Len(results)]
       IN  /\ \E x \in ReturnedStates(r) : IsFinished(transition_function.val, x)
           /\ \E x \in ReturnedStates(r) : ~IsFinished(transition_function.val, x)
           /\ \E x \in CandidatesOfStep(r, 1) :
                  ~IsFinished(transition_function.val, x) /\ x \notin ReturnedStates(r)

-----------------------------------------------------------------------------
\* the batch indices of a sequence of states, in order of first appearance
RECURSIVE BatchOrder(_)
BatchOrder(s) ==
    IF s = <<>> THEN <<>>
    ELSE LET rest == BatchOrder(SubSeq(s, 1, Len(s) - 1))
             b == s[Len(s)].batch
         IN  IF b \in Range(rest) THEN rest ELSE Append(rest, b)

\* the (score, action_history) pairs of a sequence of states
PairsOf(s) == [i \in DOMAIN s |-> <<s[i].score, s[i].hist>>]

\* one entry per batch index that has an unfinished candidate in call c
EntriesOfCall(c) ==
    LET u == Unfinished(c.cands)
        order == BatchOrder(u)
    IN  [i \in DOMAIN order |-> PairsOf(OfBatch(u, order[i]))]

RECURSIVE EntriesOfCalls(_)
EntriesOfCalls(cs) ==
    IF cs = <<>> THEN <<>> ELSE EntriesOfCall(Head(cs)) \o EntriesOfCalls(Tail(cs))

EndOfLoop == pc = "loop" /\ ~LoopCondition(states, step_num, num_steps)

(* C15 as stated: with keep_beam_details enabled, at the end of the step   *)
(* loop the log has exactly one entry per completed step, holding the      *)
(* pairs of that step's candidates of all batch indices together.  (The    *)
(* entry is compared with the step's unfinished candidates, the reading    *)
(* most favourable to the statement.)                                      *)
C15_Original ==
    (EndOfLoop /\ engine.val.beams.some) =>
        /\ Len(engine.val.beams.val) = Len(calls)
        /\ \A i \in DOMAIN calls :
              engine.val.beams.val[i] = PairsOf(Unfinished(calls[i].cands))

(* C15 amended: with keep_beam_details enabled, throughout and at the end  *)
(* of the step loop the log holds, in step order, one entry for every      *)
(* batch index that had an unfinished candidate at that step (none for a   *)
(* step or batch index whose candidates were all finished), each entry     *)
(* holding the pairs of all of that batch index's unfinished candidates    *)
(* of the step in the policy's order.                                      *)
C15_LogPerStepAndBatch ==
    (pc = "loop" /\ engine.val.beams.some) =>
        engine.val.beams.val = EntriesOfCalls(calls)

\* the end of a loop of several steps over two batch indices, with a step that
\* logged both and a batch index whose candidates were cut to the beam
C15_Witness ==
    /\ EndOfLoop
    /\ engine.val.beams.some
    /\ Len(calls) >= 2
    /\ Len(engine.val.beams.val) > Len(calls)
    /\ \E i \in DOMAIN calls :
          /\ Len(EntriesOfCall(calls[i])) = 2
          /\ \E b \in {0, 1} :
                Len(OfBatch(Unfinished(calls[i].cands), b)) > engine.val.beam_size

-----------------------------------------------------------------------------
\* every member of the initial state of the running search has an empty history
EmptyInitialHistories == \A i \in DOMAIN initial_state : initial_state[i].hist = <<>>

\* the finished accumulator's list for batch index 0 of the search recorded in r
FinishedOfBatchZero(r) ==
    IF 0 \in DictKeys(r.finished) THEN DictGet(r.finished, 0) ELSE <<>>

\* every pair at log index i has a history of length i
DepthIndexed(log) ==
    \A i \in DOMAIN log : \A j \in DOMAIN log[i] : Len(log[i][j][2]) = i

\* every state of sts has its pair in the log entry of its history length
BackFilled(log, sts) ==
    \A k \in DOMAIN sts :
        /\ Len(sts[k].hist) \in DOMAIN log
        /\ <<sts[k].score, sts[k].hist>> \in Range(log[Len(sts[k].hist)])

(* C16 as stated: with keep_beam_details enabled and empty initial         *)
(* histories, after search returns every pair at log index i (from 0) has  *)
(* a history of length i + 1, and every finished state of batch index 0    *)
(* with history length L is in the entry at index L - 1.                   *)
C16_Original ==
    (pc = "done" /\ results # <<>> /\ results[Len(results)].beams.some
        /\ EmptyInitialHistories) =>
        LET r == results[Len(results)]
        IN  /\ DepthIndexed(r.beams.val)
            /\ BackFilled(r.beams.val, FinishedOfBatchZero(r))

(* C16 amended: with keep_beam_details enabled and an initial state whose  *)
(* histories are empty, after search returns every state in the finished   *)
(* accumulator of batch index 0 with history length L has its pair in the  *)
(* log entry at index L - 1; and when the initial state holds a single     *)
(* hypothesis, every pair at log index i has a history of length i + 1.    *)
C16_BackFilledByDepth ==
    (pc = "done" /\ results # <<>> /\ results[Len(results)].beams.some
        /\ EmptyInitialHistories) =>
        LET r == results[Len(results)]
        IN  /\ BackFilled(r.beams.val, FinishedOfBatchZero(r))
            /\ Len(initial_state) = 1 => DepthIndexed(r.beams.val)

\* a single-hypothesis search of several steps whose last step left no unfinished
\* candidate, so that the log was extended, with finished states of two depths
C16_Witness ==
    /\ pc = "done"
    /\ results # <<>>
    /\ results[Len(results)].beams.some
    /\ EmptyInitialHistories
    /\ Len(initial_state) = 1
    /\ LET r == results[Len(results)]
       IN  /\ Len(r.calls) >= 2
           /\ Unfinished(r.calls[Len(r.calls)].cands) = <<>>
           /\ Len(r.beams.val) = Len(r.calls)
           /\ \E x, y \in Range(FinishedOfBatchZero(r)) :
                  Len(x.hist) = 1 /\ Len(y.hist) = Len(r.calls)

-----------------------------------------------------------------------------
\* a search is running or has run on an engine that holds a constraint map
ConstrainedSearch ==
    /\ pc \in {"loop", "done"}
    /\ engine.val.allowed_transitions.some

\* once a call is unrestricted, every later call of the search is too
FreeStaysFree ==
    \A i, j \in DOMAIN calls :
        (i < j /\ calls[i].allowed = None) => calls[j].allowed = None

(* C17 as stated: within one search on a constrained engine, once some     *)
(* step calls the policy with no allowed-action restriction, every later   *)
(* step of that search also calls it with no restriction.                  *)
C17_Original == ConstrainedSearch => FreeStaysFree

(* C17 amended: within one search on a constrained engine that starts from *)
(* a single hypothesis, once some step calls the policy with no            *)
(* restriction every later step of that search does too.                   *)
C17_SwitchOnceSingleHypothesis ==
    (ConstrainedSearch /\ Len(initial_state) = 1) => FreeStaysFree

\* a search from one hypothesis that was forced, then free for two steps
C17_Witness ==
    /\ ConstrainedSearch
    /\ pc = "done"
    /\ Len(initial_state) = 1
    /\ Len(calls) = 3
    /\ calls[1].allowed.some
    /\ calls[2].allowed = None /\ calls[2].cands # <<>>
    /\ calls[3].allowed = None /\ calls[3].cands # <<>>

-----------------------------------------------------------------------------
\* the batch indices that had a state appended to the finished accumulator during
\* the search recorded in r: a finished candidate of any step, or an unfinished
\* candidate of step num_steps when the flag is set
AppendedBatches(r) ==
    {x.batch : x \in {y \in UNION {Range(r.calls[i].cands) : i \in DOMAIN r.calls} :
                        \/ IsFinished(transition_function.val, y)
                        \/ (r.keep /\ y \in CandidatesOfStep(r, num_steps))}}

(* C18: the mapping returned by search has a key for batch index b if and  *)
(* only if at least one finished or retained state of batch index b was    *)
(* appended to the finished accumulator during the search; no key of the   *)
(* returned mapping maps to an empty list.  Stated for beam_size >= 1,     *)
(* where truncation cannot empty a list.                                   *)
C18_KeysAreAppendedBatches ==
    (pc = "done" /\ results # <<>> /\ engine.val.beam_size >= 1) =>
        LET r == results[Len(results)]
        IN  /\ DictKeys(r.best_states) = AppendedBatches(r)
            /\ \A i \in DOMAIN r.best_states : r.best_states[i].v # <<>>

\* the same statement for engines without the trajectory log
C18_KeysWithoutDiagnostics ==
    (pc = "done" /\ results # <<>> /\ engine.val.beam_size >= 1
        /\ ~results[Len(results)].beams.some) =>
        LET r == results[Len(results)]
        IN  /\ DictKeys(r.best_states) = AppendedBatches(r)
            /\ \A i \in DOMAIN r.best_states : r.best_states[i].v # <<>>

-----------------------------------------------------------------------------
\* two returned mappings have the same keys and the same list under every key
SameMapping(m1, m2) ==
    /\ DictKeys(m1) = DictKeys(m2)
    /\ \A key \in DictKeys(m1) : DictGet(m1, key) = DictGet(m2, key)

\* a mapping without the keys that map to an empty list
NonEmptyEntries(m) == {<<m[i].k, m[i].v>> : i \in {j \in DOMAIN m : m[j].v # <<>>}}

\* the same search was run on two engines that differ in keep_beam_details only
TwinSearchesDone ==
    /\ pc = "done"
    /\ Len(results) = 2
    /\ results[1].beams.some # results[2].beams.some

(* C19: diagnostics are observation only: for the same beam_size,          *)
(* per_node_beam_size, constraint, num_steps, initial state, flag and      *)
(* deterministic policy, search on an engine with keep_beam_details        *)
(* enabled returns the same mapping (same keys, same lists) as search on   *)
(* an engine with it disabled, and makes the same take_step calls.         *)
(* Stated for beam_size >= 1 and num_steps >= 1.                           *)
C19_DiagnosticsObserveOnly ==
    (TwinSearchesDone /\ engine.val.beam_size >= 1 /\ num_steps >= 1) =>
        /\ SameMapping(results[1].best_states, results[2].best_states)
        /\ results[1].calls = results[2].calls

\* what does hold of the two searches: the same take_step calls, and the same
\* lists under the same keys apart from keys that map to an empty list
C19_SameCallsSameNonEmptyLists ==
    TwinSearchesDone =>
        /\ NonEmptyEntries(results[1].best_states) = NonEmptyEntries(results[2].best_states)
        /\ results[1].calls = results[2].calls

====
